---- MODULE Spec2Model ----
(***************************************************************************)
(* Landroid Cloud adapter: the state synchronizer, the zone selector, the  *)
(* schedule codec and the account setup, as state machines.                *)
(*                                                                         *)
(* Python values that may be None are modelled as sequences of length at   *)
(* most one: <<>> is None (or a missing dict key), <<v>> is the value v.   *)
(***************************************************************************)
EXTENDS Integers, Sequences, FiniteSets, TLC

None == <<>>
Some(v) == <<v>>
IsNone(x) == x = <<>>
Val(x) == x[1]

(***************************************************************************)
(* Bounds of the model.                                                    *)
(***************************************************************************)
\* ERROR_TO_DESCRIPTION (pyworxcloud.states) is a finite table: its keys are
\* taken to be 0..MaxKnownError; the handle may report codes outside of it.
MaxKnownError == 6
\* raw status codes the handle may report: 0..MaxStatus
MaxStatus == 4
\* values of a mapped property of the handle: 1..MaxPropValue (or None)
MaxPropValue == 2

\* the device's zone array has 0..MaxZoneLen entries
MaxZoneLen == 5

\* a set-schedule request supplies a start time for at most MaxSupplied days
MaxSupplied == 2
\* the model follows the schedule codec up to MaxSends calls of device.send
MaxSends == 1

\* master.enumerate() reports 0..MaxDevices devices
MaxDevices == 2

\* the error code the synchronizer treats as "rain delay"
RAIN_DELAY_ERROR == 5

(***************************************************************************)
(* const.py: operating states and the status -> state table.               *)
(***************************************************************************)
STATE_INITIALIZING == "initializing"
STATE_OFFLINE == "offline"
STATE_RAINDELAY == "rain_delay"
STATE_MOWING == "mowing"
STATE_ERROR == "error"
STATE_DOCKED == "docked"
STATE_RETURNING == "returning"

\* STATE_MAP: raw status code -> operating state (a dict: unknown codes are
\* missing keys)
STATE_MAP_KEYS == {1, 2, 3}
STATE_MAP(status) ==
    CASE status = 1 -> STATE_DOCKED
      [] status = 2 -> STATE_MOWING
      [] status = 3 -> STATE_RETURNING

(***************************************************************************)
(* pyworxcloud.states.ERROR_TO_DESCRIPTION, as device_base.py uses it: a   *)
(* dict indexed by the error code; a code that is no key raises KeyError.  *)
(***************************************************************************)
ERROR_TO_DESCRIPTION_KEYS == 0 .. MaxKnownError
ERROR_TO_DESCRIPTION(code) == <<"description", code>>

(***************************************************************************)
(* attribute_map.py: ATTR_MAP["default"]["state"], property -> attribute.  *)
(***************************************************************************)
Props == {"rssi"}
ATTR_MAP(prop) ==
    CASE prop = "rssi" -> "rssi_attr"
AttrNames == {ATTR_MAP(p) : p \in Props} \cup {"error"}

(***************************************************************************)
(* The device handle's property bag, as one update cycle reads it.         *)
(***************************************************************************)
\* error codes: none, a code in (0,5), 5, the last code of the table and one
\* the table does not hold
ErrorValues ==
    {None} \cup {Some(e) : e \in {0, 1, RAIN_DELAY_ERROR, MaxKnownError, MaxKnownError + 1}}
StatusValues == 0 .. MaxStatus
PropValues == {None} \cup {Some(v) : v \in 1 .. MaxPropValue}
BatteryValues == {20, 80}
SerialValues == {"SN1"}
Bags ==
    [online : BOOLEAN, error : ErrorValues, status : StatusValues,
     props : [Props -> PropValues], battery_percent : BatteryValues,
     serial : SerialValues]

VARIABLES
    \* LandroidCloudBaseEntity
    attributes,      \* self._attributes: attribute name -> None (no key) or value
    available,       \* self._available
    attr_state,      \* self._attr_state
    serialnumber,    \* self._serialnumber
    battery_level,   \* self._battery_level
    last,            \* the last operation: what it read and how it ended
    \* the device handle and the adapter, as the zone selector reads them
    device_zone,     \* api.device.zone: [readable, value]
    \* LandroidCloudSelectZoneEntity
    attr_options,         \* self._attr_options
    attr_current_option,  \* self._attr_current_option
    zlast,                \* the last zone selector operation
    \* the schedule codec
    schedules,       \* api.device.schedules: type -> day -> [start, duration, boundary]
    send_count,      \* the number of device.send calls so far
    slast,           \* the last set-schedule call: request, error, document sent
    \* the integration: __init__.py
    registry,        \* hass.data[DOMAIN]: entry id -> None (no key) or the account's dict
    platforms,       \* the entries whose entity platforms are set up
    entry_state,     \* the host's view of each config entry
    ulast,           \* the last setup or unload call
    \* the signals between the adapters and the entities
    names,           \* device.name of each device handle
    subs,            \* the dispatcher's subscriptions: [signal, entity, target]
    pending,         \* the signals scheduled on the event loop, not yet delivered
    invoked,         \* the entities whose update_callback has been invoked
    dlast,           \* the last delivery: the signal and the entities it invoked
    \* a second entity of the same device
    twin             \* its _attr_state, and whether the last cycle reached it too

syncVars == <<attributes, available, attr_state, serialnumber, battery_level>>
selectVars == <<attr_options, attr_current_option>>
zoneVars == <<device_zone, attr_options, attr_current_option, zlast>>
vars ==
    <<attributes, available, attr_state, serialnumber, battery_level, last,
      device_zone, attr_options, attr_current_option, zlast,
      schedules, send_count, slast,
      registry, platforms, entry_state, ulast,
      names, subs, pending, invoked, dlast, twin>>
dispatchVars == <<names, subs, pending, invoked, dlast>>
setupVars == <<registry, platforms, entry_state, ulast>>
schedVars == <<schedules, send_count, slast>>

NoOp == [op |-> "none"]

(***************************************************************************)
(* LandroidCloudBaseEntity.__init__ and the class attributes.              *)
(***************************************************************************)
EntityInit ==
    /\ attributes = [a \in AttrNames |-> None]
    /\ available = FALSE
    /\ attr_state = STATE_INITIALIZING
    /\ serialnumber = None
    /\ battery_level = None

(***************************************************************************)
(* LandroidCloudBaseEntity.async_update                                    *)
(***************************************************************************)
\* master.error or 0
ErrorOrZero(error) == IF IsNone(error) \/ error = Some(0) THEN 0 ELSE Val(error)

\* line 179 raises KeyError when the code is no key of the table
ErrorLookupRaises(master) == ErrorOrZero(master.error) \notin ERROR_TO_DESCRIPTION_KEYS

\* lines 172-179: the data dict of this cycle (None: the key is not written)
CycleData(master) ==
    [a \in AttrNames |->
        IF a = "error"
        THEN Some(ERROR_TO_DESCRIPTION(ErrorOrZero(master.error)))
        ELSE LET p == CHOOSE q \in Props : ATTR_MAP(q) = a
             IN  master.props[p]]

\* line 181: self._attributes.update(data)
DictUpdate(old, data) == [a \in AttrNames |-> IF IsNone(data[a]) THEN old[a] ELSE data[a]]

\* the status fallback dropped: an unknown status code reported as an error
ComputeState_NoFallback(master) ==
    IF ~master.online
    THEN STATE_OFFLINE
    ELSE IF ~IsNone(master.error) /\ Val(master.error) > 0
         THEN IF Val(master.error) # RAIN_DELAY_ERROR THEN STATE_ERROR ELSE STATE_RAINDELAY
         ELSE IF master.status \in STATE_MAP_KEYS
              THEN STATE_MAP(master.status)
              ELSE STATE_ERROR

\* lines 185-198: the operating state of this cycle
ComputeState(master) ==
    IF ~master.online
    THEN STATE_OFFLINE
    ELSE IF ~IsNone(master.error) /\ Val(master.error) > 0
         THEN IF Val(master.error) > 0 /\ Val(master.error) # RAIN_DELAY_ERROR
              THEN STATE_ERROR
              ELSE IF Val(master.error) = RAIN_DELAY_ERROR
                   THEN STATE_RAINDELAY
                   ELSE STATE_INITIALIZING
         ELSE IF master.status \in STATE_MAP_KEYS
              THEN STATE_MAP(master.status)
              ELSE STATE_INITIALIZING

\* what the cycle read of the handle's state fields, and whether it raised
Cycle(master, raised) ==
    [op |-> "async_update", online |-> master.online, error |-> master.error,
     status |-> master.status, battery_percent |-> master.battery_percent,
     serial |-> master.serial, raised |-> raised]

async_update(master) ==
    \/ /\ ErrorLookupRaises(master)
       /\ last' = Cycle(master, TRUE)
       /\ UNCHANGED syncVars
    \/ /\ ~ErrorLookupRaises(master)
       /\ attributes' = DictUpdate(attributes, CycleData(master))
       /\ available' = master.online
       /\ attr_state' = ComputeState(master)
       /\ serialnumber' = Some(master.serial)
       /\ battery_level' = Some(master.battery_percent)
       /\ last' = Cycle(master, FALSE)

UpdateCycle == \E master \in Bags : async_update(master)

(***************************************************************************)
(* The mower commands: LandroidCloudMowerBase.async_return_to_base and     *)
(* async_stop.                                                             *)
(***************************************************************************)
\* only the docked state suppresses the command
ReturnToBaseCalls_DockedOnly(state) ==
    IF state # STATE_DOCKED THEN <<"home">> ELSE <<>>

\* lines 409-412: the calls on the device handle, given self.state
ReturnToBaseCalls(state) ==
    IF state \notin {STATE_DOCKED, STATE_RETURNING} THEN <<"home">> ELSE <<>>

async_return_to_base ==
    /\ last' = [op |-> "async_return_to_base", state |-> attr_state,
                calls |-> ReturnToBaseCalls(attr_state)]
    /\ UNCHANGED syncVars

\* async_stop awaits async_return_to_base()
async_stop ==
    /\ last' = [op |-> "async_stop", state |-> attr_state,
                calls |-> ReturnToBaseCalls(attr_state)]
    /\ UNCHANGED syncVars

(***************************************************************************)
(* The mower commands: LandroidCloudMowerBase.async_start, async_pause and *)
(* async_start_pause.                                                      *)
(***************************************************************************)
\* the characters of the state names, for the substring test of line 402
Chars(state) ==
    CASE state = STATE_INITIALIZING ->
             <<"i", "n", "i", "t", "i", "a", "l", "i", "z", "i", "n", "g">>
      [] state = STATE_OFFLINE -> <<"o", "f", "f", "l", "i", "n", "e">>
      [] state = STATE_RAINDELAY -> <<"r", "a", "i", "n", "_", "d", "e", "l", "a", "y">>
      [] state = STATE_MOWING -> <<"m", "o", "w", "i", "n", "g">>
      [] state = STATE_ERROR -> <<"e", "r", "r", "o", "r">>
      [] state = STATE_DOCKED -> <<"d", "o", "c", "k", "e", "d">>
      [] state = STATE_RETURNING -> <<"r", "e", "t", "u", "r", "n", "i", "n", "g">>

\* needle in hay, on strings
Contains(hay, needle) ==
    \E i \in 1 .. (Len(hay) - Len(needle) + 1) :
        SubSeq(hay, i, i + Len(needle) - 1) = needle

\* async_start and async_pause: the call on the device handle
async_start == <<"start">>
async_pause == <<"pause">>

\* the toggle pauses a returning mower as well
StartPauseCalls_PauseWhenActive(state) ==
    IF state \in {STATE_MOWING, STATE_RETURNING} THEN async_pause ELSE async_start

\* lines 402-405: if STATE_MOWING in self.state: pause, else start
StartPauseCalls(state) ==
    IF Contains(Chars(state), Chars(STATE_MOWING)) THEN async_pause ELSE async_start

async_start_pause ==
    /\ last' = [op |-> "async_start_pause", state |-> attr_state,
                calls |-> StartPauseCalls(attr_state)]
    /\ UNCHANGED syncVars

(***************************************************************************)
(* The zone selector: LandroidCloudSelectZoneEntity.                       *)
(***************************************************************************)
\* str() of a zone index
ToStr(i) ==
    CASE i = 0 -> "0"
      [] i = 1 -> "1"
      [] i = 2 -> "2"
      [] i = 3 -> "3"

\* a slot of the zone array: 0 is unconfigured, 5 a configured value
SlotValues == {0, 5}
ZoneArrays == UNION {[1 .. n -> SlotValues] : n \in 0 .. MaxZoneLen}
Unreadable == [readable |-> FALSE, value |-> <<>>]
ZoneReads == {Unreadable} \cup {[readable |-> TRUE, value |-> z] : z \in ZoneArrays}

\* api.shared_options["current_zone"]: None when the key is missing
SharedValues == {None} \cup {Some(i) : i \in 0 .. 3}

\* LandroidCloudSelectEntity.__init__
SelectInit ==
    /\ attr_options = <<>>
    /\ attr_current_option = None
    /\ zlast = NoOp

\* lines 260-263: reading the zone array; a failed read gives []
ReadZones(dz) == IF dz.readable THEN dz.value ELSE <<>>

\* the loop reads zones[idx - 1]: slot 0 is tested, slot 3 is not
RECURSIVE ZoneLoop_OffByOne(_, _, _)
ZoneLoop_OffByOne(zones, idx, options) ==
    IF idx > 3
    THEN options
    ELSE ZoneLoop_OffByOne(zones, idx + 1,
             IF zones[idx] # 0 THEN Append(options, ToStr(idx)) ELSE options)

\* lines 269-271: for idx in range(1, 4) (zones[idx] is zones[idx + 1] here:
\* TLA+ sequences start at 1)
RECURSIVE ZoneLoop(_, _, _)
ZoneLoop(zones, idx, options) ==
    IF idx > 3
    THEN options
    ELSE ZoneLoop(zones, idx + 1,
             IF zones[idx + 1] # 0 THEN Append(options, ToStr(idx)) ELSE options)

\* the length test is >= 4 instead of == 4
UpdateZone_AtLeast4(dz, options) ==
    LET zones == ReadZones(dz)
    IN  IF Len(zones) >= 4 THEN ZoneLoop(zones, 1, <<"0">>) ELSE options

\* _update_zone: the options after it, given the options before
UpdateZone(dz, options) ==
    LET zones == ReadZones(dz)
    IN  IF Len(zones) = 4 THEN ZoneLoop(zones, 1, <<"0">>) ELSE options

\* a missing current zone is shown as zone 0
CurrentOption_DefaultZero(shared) ==
    IF IsNone(shared) THEN Some("0") ELSE Some(ToStr(Val(shared)))

\* lines 245-248: str(shared_options["current_zone"]), None on any exception
CurrentOption(shared) == IF IsNone(shared) THEN None ELSE Some(ToStr(Val(shared)))

\* update_selected_zone on a selector whose options are `options`
SelectedZone(options, shared, op) ==
    /\ attr_options' = IF Len(options) > 1 THEN UpdateZone(device_zone, options) ELSE options
    /\ attr_current_option' = CurrentOption(shared)
    /\ zlast' = [op |-> op, shared |-> shared, raised |-> FALSE]
    /\ UNCHANGED device_zone

\* the handler of the zones signal
update_selected_zone(shared) == SelectedZone(attr_options, shared, "update_selected_zone")

\* the handler of the data-updated signal
update_callback(shared) ==
    SelectedZone(UpdateZone(device_zone, attr_options), shared, "update_callback")

\* the cloud pushes zone data: the handle's zone array changes
CloudZonePush ==
    /\ \E dz \in ZoneReads : device_zone' = dz
    /\ zlast' = NoOp
    /\ UNCHANGED selectVars

\* the options a caller may select: zone indices, a padded index, no number
SelectInputs == {"0", "3", "02", "x"}

\* int(option): None when it raises ValueError
ParseInt(option) ==
    CASE option = "0" -> Some(0)
      [] option = "1" -> Some(1)
      [] option = "2" -> Some(2)
      [] option = "3" -> Some(3)
      [] option = "02" -> Some(2)
      [] OTHER -> None

\* async_setzone: the call on the device handle, device.setzone(str(zone))
async_setzone(zone) == <<"setzone", ToStr(zone)>>

\* hass.services.async_call(DOMAIN, SERVICE_SETZONE, service_data=data, ...)
ServiceCall(zone) == [service |-> "setzone", zone |-> zone]

\* the selector takes the option as current without waiting for the signal
async_select_option_Optimistic(option) ==
    /\ attr_current_option' = Some(option)
    /\ zlast' = [op |-> "async_select_option", option |-> option,
                 raised |-> IsNone(ParseInt(option)),
                 dispatched |-> IF IsNone(ParseInt(option)) THEN <<>>
                                ELSE <<ServiceCall(Val(ParseInt(option)))>>,
                 device_calls |-> IF IsNone(ParseInt(option)) THEN <<>>
                                  ELSE <<async_setzone(Val(ParseInt(option)))>>]
    /\ UNCHANGED <<device_zone, attr_options>>

\* async_select_option: int(option) on line 287 raises before the service
\* call; the service runs async_setzone of the mower entity
async_select_option(option) ==
    /\ zlast' = [op |-> "async_select_option", option |-> option,
                 raised |-> IsNone(ParseInt(option)),
                 dispatched |-> IF IsNone(ParseInt(option)) THEN <<>>
                                ELSE <<ServiceCall(Val(ParseInt(option)))>>,
                 device_calls |-> IF IsNone(ParseInt(option)) THEN <<>>
                                  ELSE <<async_setzone(Val(ParseInt(option)))>>]
    /\ UNCHANGED <<device_zone, attr_options, attr_current_option>>

SelectOption == \E option \in SelectInputs : async_select_option(option)
DataUpdatedSignal == \E shared \in SharedValues : update_callback(shared)
ZonesSignal == \E shared \in SharedValues : update_selected_zone(shared)

(***************************************************************************)
(* The schedule codec: LandroidCloudMowerBase.async_set_schedule.          *)
(***************************************************************************)
\* const.SCHEDULE_TO_DAY: the weekdays in the order of the table
Days == <<"sunday", "monday", "tuesday", "wednesday", "thursday", "friday", "saturday">>
DaySet == {Days[i] : i \in 1 .. Len(Days)}
DayIndex(d) == CHOOSE i \in 1 .. Len(Days) : Days[i] = d

\* const.SCHEDULE_TYPE_MAP: schedule type -> key of the wire document
ScheduleTypes == {"primary", "secondary"}
SCHEDULE_TYPE_MAP(type) == IF type = "primary" THEN "d" ELSE "dd"

\* a time of day "HH:MM" is the pair <<HH, MM>>
Minutes(t) == t[1] * 60 + t[2]

\* int(boundary)
BoolToInt(b) == IF b THEN 1 ELSE 0

\* the schedules the handle may report: two documents that differ in every
\* entry, and whose primary and secondary schedules differ
DeviceSchedule(v) ==
    [type \in ScheduleTypes |->
        [d \in DaySet |->
            [start |-> <<IF type = "primary" THEN 6 + v ELSE 14 + v, 5 * DayIndex(d)>>,
             duration |-> 30 * v + DayIndex(d) + (IF type = "primary" THEN 0 ELSE 100),
             boundary |-> (DayIndex(d) % 2 = v % 2)]]]
DeviceSchedules == {DeviceSchedule(v) : v \in 1 .. 2}

\* service_call.data: per day, the keys <day>_start, <day>_end, <day>_boundary
\* (None: the key is not in the data)
NoEntry == [start |-> None, end |-> None, boundary |-> FALSE]
StartOnly(d) == [start |-> Some(<<8, 30>>), end |-> None, boundary |-> FALSE]
StartEnd(d) ==
    [start |-> Some(<<8, 30>>), end |-> Some(<<9 + DayIndex(d), 15>>),
     boundary |-> (DayIndex(d) % 2 = 1)]
Entries(d) == {NoEntry, StartOnly(d), StartEnd(d)}
Supplied(data) == {d \in DaySet : ~IsNone(data[d].start)}
RequestData(starts, ends) ==
    [d \in DaySet |->
        IF d \in ends THEN StartEnd(d)
        ELSE IF d \in starts THEN StartOnly(d) ELSE NoEntry]
Requests ==
    {[type |-> type, data |-> RequestData(se[1], se[2])] :
        type \in ScheduleTypes,
        se \in {x \in (SUBSET DaySet) \X (SUBSET DaySet) :
                   x[2] \subseteq x[1] /\ Cardinality(x[1]) <= MaxSupplied}}

\* utils.parseday: [start, duration in minutes (end - start), boundary flag]
parseday(d, data) ==
    <<Val(data[d].start), Minutes(Val(data[d].end)) - Minutes(Val(data[d].start)),
      BoolToInt(data[d].boundary)>>

\* utils.pass_thru: the seven stored triples of one schedule, as they are
pass_thru(schedule) ==
    [i \in 1 .. Len(Days) |->
        <<schedule[Days[i]].start, schedule[Days[i]].duration,
          BoolToInt(schedule[Days[i]].boundary)>>]

\* the carried-through triple is read from the primary schedule whatever
\* the type being edited
CurrentTriple_AlwaysPrimary(type, d) ==
    <<schedules["primary"][d].start, schedules["primary"][d].duration,
      BoolToInt(schedules["primary"][d].boundary)>>

\* lines 454-461: the stored triple of a day the request does not supply
CurrentTriple(type, d) ==
    <<schedules[type][d].start, schedules[type][d].duration,
      BoolToInt(schedules[type][d].boundary)>>

\* lines 441-462: the loop over the weekdays; it ends with the list of the
\* seven triples, or raises at the first day with a start and no end
RECURSIVE DayLoop(_, _, _, _)
DayLoop(i, type, data, acc) ==
    IF i > Len(Days)
    THEN [raised |-> None, days |-> acc]
    ELSE LET d == Days[i]
         IN  IF ~IsNone(data[d].start)
             THEN IF IsNone(data[d].end)
                  THEN [raised |-> Some(d), days |-> acc]
                  ELSE DayLoop(i + 1, type, data, Append(acc, parseday(d, data)))
             ELSE DayLoop(i + 1, type, data, Append(acc, CurrentTriple(type, d)))

\* a dict, and the assignment dict[key] = value
EmptyDict == [k \in {} |-> None]
DictSet(dict, key, value) == (key :> value) @@ dict

\* the secondary schedule is not passed through when the primary is edited
BuildSchedule_DropSecondary(type, days) ==
    LET s0 == IF type = "secondary"
              THEN DictSet(EmptyDict, SCHEDULE_TYPE_MAP("primary"),
                           pass_thru(schedules["primary"]))
              ELSE EmptyDict
    IN  DictSet(s0, SCHEDULE_TYPE_MAP(type), days)

\* lines 430-438 and 464-469: the schedule dict of the document
BuildSchedule(type, days) ==
    LET s0 == IF type = "secondary"
              THEN DictSet(EmptyDict, SCHEDULE_TYPE_MAP("primary"),
                           pass_thru(schedules["primary"]))
              ELSE EmptyDict
        s1 == DictSet(s0, SCHEDULE_TYPE_MAP(type), days)
    IN  IF type = "primary"
        THEN DictSet(s1, SCHEDULE_TYPE_MAP("secondary"),
                     pass_thru(schedules["secondary"]))
        ELSE s1

\* the document is sent before the weekdays are validated
SetScheduleOutcome_SendFirst(req) ==
    LET loop == DayLoop(1, req.type, req.data, <<>>)
    IN  [raised |-> loop.raised,
         sent |-> <<[sc |-> BuildSchedule(req.type, loop.days)]>>]

\* what one call raises and what it passes to device.send (line 475)
SetScheduleOutcome(req) ==
    LET loop == DayLoop(1, req.type, req.data, <<>>)
    IN  IF ~IsNone(loop.raised)
        THEN [raised |-> loop.raised, sent |-> <<>>]
        ELSE [raised |-> None,
              sent |-> <<[sc |-> BuildSchedule(req.type, loop.days)]>>]

async_set_schedule(req) ==
    /\ send_count < MaxSends
    /\ LET out == SetScheduleOutcome(req)
       IN  /\ send_count' = send_count + Len(out.sent)
           /\ slast' = [op |-> "async_set_schedule", request |-> req,
                        raised |-> out.raised, sent |-> out.sent,
                        sends_before |-> send_count]
    /\ UNCHANGED schedules

SetSchedule == \E req \in Requests : async_set_schedule(req)

\* the cloud pushes schedule data: the handle reports another schedule
CloudSchedulePush ==
    /\ \E sch \in DeviceSchedules \ {schedules} : schedules' = sch
    /\ slast' = NoOp
    /\ UNCHANGED send_count

SchedInit ==
    /\ send_count = 0
    /\ slast = NoOp

(***************************************************************************)
(* The integration: async_setup_entry, _setup, async_unload_entry.         *)
(***************************************************************************)
ConfigEntries == {"e1", "e2"}

\* master.enumerate(): None when it raises, else the number of devices
EnumResults == {None} \cup {Some(n) : n \in 0 .. MaxDevices}

\* lines 105-127: the account's dict, with one handle and one adapter per
\* device index; LandroidAPI.__init__ starts with no listeners
AccountEntry(num_dev) ==
    [count |-> num_dev,
     devices |-> [idx \in 0 .. num_dev - 1 |-> [connected |-> TRUE, listeners |-> 0]]]

\* authentication is not tested: the devices are enumerated and set up
\* whatever master.initialize returned
Setup_IgnoreAuth(entry, auth, enum) ==
    IF IsNone(enum)
    THEN [result |-> FALSE, registry |-> registry, connected |-> 0]
    ELSE [result |-> TRUE,
          registry |-> [registry EXCEPT ![entry] = Some(AccountEntry(Val(enum)))],
          connected |-> Val(enum)]

\* _setup: its result, hass.data[DOMAIN] after it, and the number of
\* per-device handles it created and connected
Setup(entry, auth, enum) ==
    IF ~auth
    THEN [result |-> FALSE, registry |-> registry, connected |-> 0]
    ELSE IF IsNone(enum)
         THEN [result |-> FALSE, registry |-> registry, connected |-> 0]
         ELSE [result |-> TRUE,
               registry |-> [registry EXCEPT ![entry] = Some(AccountEntry(Val(enum)))],
               connected |-> Val(enum)]

\* async_setup_entry: line 52 sets up the platforms whatever _setup returned
async_setup_entry(entry, auth, enum) ==
    /\ entry_state[entry] \in {"not_loaded", "setup_error"}
    /\ LET out == Setup(entry, auth, enum)
       IN  /\ registry' = out.registry
           /\ platforms' = platforms \cup {entry}
           /\ entry_state' = [entry_state EXCEPT
                                 ![entry] = IF out.result THEN "loaded" ELSE "setup_error"]
           /\ ulast' = [op |-> "async_setup_entry", entry |-> entry, auth |-> auth,
                        enum |-> enum, result |-> out.result, raised |-> FALSE,
                        connected |-> out.connected, registry_before |-> registry,
                        platforms_before |-> platforms]

\* lines 62-68: the loop over the device indices; the account's dict is
\* popped inside it, so the second index finds no dict (KeyError), and with
\* no device nothing is popped
UnloadLoop(entry) ==
    IF IsNone(registry[entry])
    THEN [raised |-> TRUE, registry |-> registry, unsubscribed |-> 0]
    ELSE LET acc == Val(registry[entry])
             popped == [registry EXCEPT ![entry] = None]
         IN  IF acc.count = 0
             THEN [raised |-> FALSE, registry |-> registry, unsubscribed |-> 0]
             ELSE [raised |-> acc.count > 1, registry |-> popped,
                   unsubscribed |-> acc.devices[0].listeners]

async_unload_entry(entry, unload_ok) ==
    /\ entry_state[entry] = "loaded"
    /\ IF unload_ok
       THEN LET out == UnloadLoop(entry)
            IN  /\ registry' = out.registry
                /\ platforms' = platforms \ {entry}
                /\ entry_state' = [entry_state EXCEPT
                                      ![entry] = IF out.raised THEN "failed_unload"
                                                 ELSE "not_loaded"]
                /\ ulast' = [op |-> "async_unload_entry", entry |-> entry,
                             unload_ok |-> TRUE, result |-> ~out.raised,
                             raised |-> out.raised, unsubscribed |-> out.unsubscribed,
                             registry_before |-> registry]
       ELSE /\ entry_state' = [entry_state EXCEPT ![entry] = "failed_unload"]
            /\ ulast' = [op |-> "async_unload_entry", entry |-> entry,
                         unload_ok |-> FALSE, result |-> FALSE, raised |-> FALSE,
                         unsubscribed |-> 0, registry_before |-> registry]
            /\ UNCHANGED <<registry, platforms>>

SetupEntry ==
    \E entry \in ConfigEntries, auth \in BOOLEAN, enum \in EnumResults :
        async_setup_entry(entry, auth, enum)
UnloadEntry ==
    \E entry \in ConfigEntries, unload_ok \in BOOLEAN : async_unload_entry(entry, unload_ok)

\* async_setup: hass.data[DOMAIN] = {}
SetupInit ==
    /\ registry = [e \in ConfigEntries |-> None]
    /\ platforms = {}
    /\ entry_state = [e \in ConfigEntries |-> "not_loaded"]
    /\ ulast = NoOp

(***************************************************************************)
(* The signals: LandroidAPI.receive_data, LandroidAPI.async_refresh,       *)
(* LandroidCloudBaseEntity.async_added_to_hass and the host's dispatcher.  *)
(***************************************************************************)
Devices == {"d1", "d2"}
DeviceNames == {"mower", "robot"}
\* two entities of device d1 and one of device d2
Entities == {"mower1", "select1", "mower2"}
EntityDevice(e) == IF e = "mower2" THEN "d2" ELSE "d1"

UPDATE_SIGNAL == "update"
UPDATE_SIGNAL_ZONES == "update_zones"
\* f"{UPDATE_SIGNAL}_{device.name}"
SignalName(base, name) == <<base, name>>

\* the signals the adapter of device d may schedule; origin and kind say
\* which adapter sent it and why
Scheduled(d, kind) ==
    [signal |-> SignalName(UPDATE_SIGNAL, names[d]), origin |-> d, kind |-> kind]
AllScheduled ==
    {[signal |-> SignalName(UPDATE_SIGNAL, n), origin |-> d, kind |-> k] :
        n \in DeviceNames, d \in Devices, k \in {"push", "refresh"}}

\* dispatcher_send: the signal is handed to the event loop
\* (call_soon_threadsafe) and delivered by a later step of the loop
dispatcher_send(d, kind) == pending \cup {Scheduled(d, kind)}

Attached == {sub.entity : sub \in subs}

\* lines 141-150: the two subscriptions of an entity
Subscriptions(e) ==
    {[signal |-> SignalName(UPDATE_SIGNAL, names[EntityDevice(e)]), entity |-> e,
      target |-> "update_callback"],
     [signal |-> SignalName(UPDATE_SIGNAL_ZONES, names[EntityDevice(e)]), entity |-> e,
      target |-> "update_selected_zone"]}

\* LandroidAPI.receive_data: the cloud pushed data for device d
receive_data(d) ==
    /\ pending' = dispatcher_send(d, "push")
    /\ UNCHANGED <<names, subs, invoked, dlast>>

\* the attach subscribes without refreshing
async_added_to_hass_NoRefresh(e) ==
    /\ e \notin Attached
    /\ subs' = subs \cup Subscriptions(e)
    /\ UNCHANGED <<names, pending, invoked, dlast>>

\* async_added_to_hass: await api.async_refresh() (device.update, then the
\* signal is scheduled), then the two subscriptions, with no await between
async_added_to_hass(e) ==
    /\ e \notin Attached
    /\ pending' = dispatcher_send(EntityDevice(e), "refresh")
    /\ subs' = subs \cup Subscriptions(e)
    /\ UNCHANGED <<names, invoked, dlast>>

\* the event loop runs async_dispatcher_send for a scheduled signal: every
\* target subscribed to the signal's name is invoked
Deliver(sig) ==
    /\ sig \in pending
    /\ LET targets == {sub.entity : sub \in {x \in subs : x.signal = sig.signal
                                                        /\ x.target = "update_callback"}}
       IN  /\ invoked' = invoked \cup targets
           /\ dlast' = [op |-> "deliver", sig |-> sig, targets |-> targets]
    /\ pending' = pending \ {sig}
    /\ UNCHANGED <<names, subs>>

CloudPush == \E d \in Devices : receive_data(d)
Attach == \E e \in Entities : async_added_to_hass(e)
Delivery == \E sig \in AllScheduled : Deliver(sig)

DispatchInit ==
    /\ subs = {}
    /\ pending = {}
    /\ invoked = {}
    /\ dlast = NoOp

(***************************************************************************)
(* Two entities of one device in the same update cycles.                   *)
(***************************************************************************)
TwinInit == twin = [state |-> STATE_INITIALIZING, shared |-> FALSE]

\* the bags the two entities read: every branch of the state computation
TwinBags ==
    {b \in Bags : /\ b.status \in {1, 2}
                  /\ b.error \in {None, Some(1), Some(MaxKnownError), Some(MaxKnownError + 1)}
                  /\ b.battery_percent = 20
                  /\ \A p \in Props : IsNone(b.props[p])}

\* async_update of the second entity, of which only _attr_state is kept
TwinUpdate(master) ==
    IF ErrorLookupRaises(master) THEN twin.state ELSE ComputeState(master)

\* a cycle of the first entity alone
SoloCycle ==
    \E master \in TwinBags :
        /\ async_update(master)
        /\ twin' = [state |-> twin.state, shared |-> FALSE]

\* both entities run a cycle on the same reading of the handle
SharedCycle ==
    \E master \in TwinBags :
        /\ async_update(master)
        /\ twin' = [state |-> TwinUpdate(master), shared |-> TRUE]

(***************************************************************************)
(* Specifications.                                                         *)
(***************************************************************************)
Init ==
    /\ EntityInit
    /\ last = NoOp
    /\ device_zone = Unreadable
    /\ SelectInit
    /\ schedules = DeviceSchedule(1)
    /\ SchedInit
    /\ SetupInit
    /\ DispatchInit
    /\ names = [d \in Devices |-> "mower"]
    /\ TwinInit

Next ==
    \/ UpdateCycle /\ UNCHANGED <<zoneVars, schedVars, setupVars, dispatchVars, twin>>
    \/ async_return_to_base /\ UNCHANGED <<zoneVars, schedVars, setupVars, dispatchVars, twin>>
    \/ async_stop /\ UNCHANGED <<zoneVars, schedVars, setupVars, dispatchVars, twin>>
    \/ async_start_pause /\ UNCHANGED <<zoneVars, schedVars, setupVars, dispatchVars, twin>>

Spec == Init /\ [][Next]_vars

InitZone ==
    /\ EntityInit
    /\ last = NoOp
    /\ device_zone \in ZoneReads
    /\ SelectInit
    /\ schedules = DeviceSchedule(1)
    /\ SchedInit
    /\ SetupInit
    /\ DispatchInit
    /\ names = [d \in Devices |-> "mower"]
    /\ TwinInit

NextZone ==
    \/ CloudZonePush /\ UNCHANGED <<syncVars, last, schedVars, setupVars, dispatchVars, twin>>
    \/ DataUpdatedSignal /\ UNCHANGED <<syncVars, last, schedVars, setupVars, dispatchVars, twin>>
    \/ ZonesSignal /\ UNCHANGED <<syncVars, last, schedVars, setupVars, dispatchVars, twin>>
    \/ SelectOption /\ UNCHANGED <<syncVars, last, schedVars, setupVars, dispatchVars, twin>>

SpecZone == InitZone /\ [][NextZone]_vars

InitSchedule ==
    /\ EntityInit
    /\ last = NoOp
    /\ device_zone = Unreadable
    /\ SelectInit
    /\ schedules \in DeviceSchedules
    /\ SchedInit
    /\ SetupInit
    /\ DispatchInit
    /\ names = [d \in Devices |-> "mower"]
    /\ TwinInit

NextSchedule ==
    \/ SetSchedule /\ UNCHANGED <<syncVars, last, zoneVars, setupVars, dispatchVars, twin>>
    \/ CloudSchedulePush /\ UNCHANGED <<syncVars, last, zoneVars, setupVars, dispatchVars, twin>>

SpecSchedule == InitSchedule /\ [][NextSchedule]_vars

NextSetup ==
    \/ SetupEntry /\ UNCHANGED <<syncVars, last, zoneVars, schedVars, dispatchVars, twin>>
    \/ UnloadEntry /\ UNCHANGED <<syncVars, last, zoneVars, schedVars, dispatchVars, twin>>

SpecSetup == Init /\ [][NextSetup]_vars

NextTwin ==
    \/ SoloCycle /\ UNCHANGED <<zoneVars, schedVars, setupVars, dispatchVars>>
    \/ SharedCycle /\ UNCHANGED <<zoneVars, schedVars, setupVars, dispatchVars>>
SpecTwin == Init /\ [][NextTwin]_vars

InitDispatch ==
    /\ EntityInit
    /\ last = NoOp
    /\ device_zone = Unreadable
    /\ SelectInit
    /\ schedules = DeviceSchedule(1)
    /\ SchedInit
    /\ SetupInit
    /\ DispatchInit
    /\ names \in [Devices -> DeviceNames]
    /\ TwinInit

NextDispatch ==
    \/ CloudPush /\ UNCHANGED <<syncVars, last, zoneVars, schedVars, setupVars, twin>>
    \/ Attach /\ UNCHANGED <<syncVars, last, zoneVars, schedVars, setupVars, twin>>
    \/ Delivery /\ UNCHANGED <<syncVars, last, zoneVars, schedVars, setupVars, twin>>

\* the event loop runs every callback scheduled on it
SpecDispatch ==
    /\ InitDispatch
    /\ [][NextDispatch]_vars
    /\ \A sig \in AllScheduled :
          WF_vars(Deliver(sig)
                  /\ UNCHANGED <<syncVars, last, zoneVars, schedVars, setupVars, twin>>)

(***************************************************************************)
(* Claims about the state synchronizer (specification Spec).               *)
(***************************************************************************)
Cycled == last.op = "async_update"
NoError(error) == IsNone(error) \/ error = Some(0)

\* C1: after every update cycle in which the handle reports online = false
\* the operating state is Offline, whatever the error code, the status code
\* and the previous state were.
C1_OfflineWhenNotOnline ==
    (Cycled /\ ~last.online) => attr_state = STATE_OFFLINE

\* C2: after every update cycle with the handle online: error code 5 gives
\* RainDelay, any other positive error code gives Error, and an absent or
\* zero error code with a status code of the table gives the mapped state.
C2_OnlinePrecedence ==
    (Cycled /\ last.online) =>
        /\ (last.error = Some(RAIN_DELAY_ERROR) => attr_state = STATE_RAINDELAY)
        /\ ((~IsNone(last.error) /\ Val(last.error) > 0
              /\ Val(last.error) # RAIN_DELAY_ERROR) => attr_state = STATE_ERROR)
        /\ ((NoError(last.error) /\ last.status \in STATE_MAP_KEYS)
             => attr_state = STATE_MAP(last.status))

\* C3: an update cycle with the handle online, the error code absent or zero
\* and a status code that is not in the status table ends in Initializing,
\* raises nothing, and has updated availability, battery and serial number.
C3_UnknownStatusInitializing ==
    (Cycled /\ last.online /\ NoError(last.error) /\ last.status \notin STATE_MAP_KEYS) =>
        /\ ~last.raised
        /\ attr_state = STATE_INITIALIZING
        /\ available = TRUE
        /\ battery_level = Some(last.battery_percent)
        /\ serialnumber = Some(last.serial)

C3_Witness ==
    /\ Cycled /\ last.online /\ last.error = Some(0) /\ last.status \notin STATE_MAP_KEYS
    /\ ~last.raised
    /\ attr_state = STATE_INITIALIZING
    /\ battery_level = Some(80)

(***************************************************************************)
(* Claims about the zone selector (specification SpecZone).                *)
(***************************************************************************)
ZoneHandled == zlast.op \in {"update_callback", "update_selected_zone"}
Malformed(dz) == ~dz.readable \/ Len(dz.value) # 4

\* what the claim expects of a zone array of 4 entries
ExpectedOptions(z) ==
    LET idx == SelectSeq(<<1, 2, 3>>, LAMBDA i : z[i + 1] # 0)
    IN  <<"0">> \o [k \in 1 .. Len(idx) |-> ToStr(idx[k])]

\* C4: after the zone selector has handled a data-updated signal while the
\* device reports a zone array of exactly 4 entries, its options are "0"
\* followed by str(i) for each i in (1,2,3), ascending, whose slot is
\* non-zero; slot 0 plays no part.
C4_OptionsFromZones ==
    (zlast.op = "update_callback" /\ device_zone.readable /\ Len(device_zone.value) = 4)
        => attr_options = ExpectedOptions(device_zone.value)

\* the example of the claim, [0,5,0,7] with 5 for every configured slot,
\* and a non-zero slot 0
C4_Witness ==
    /\ zlast.op = "update_callback"
    /\ device_zone = [readable |-> TRUE, value |-> <<5, 5, 0, 5>>]
    /\ attr_options = <<"0", "1", "3">>

\* C5: a signal handled while the zone array has a length other than 4, or
\* cannot be read, leaves the options exactly as they were and raises
\* nothing.
C5_MalformedZonesIgnored ==
    [][\A shared \in SharedValues :
          ((update_callback(shared) \/ update_selected_zone(shared))
            /\ Malformed(device_zone))
          => (attr_options' = attr_options /\ ~zlast'.raised)]_vars

\* options learnt from earlier telemetry are still there after a signal
\* handled with a zone array of 5 entries
C5_Witness ==
    /\ zlast.op = "update_callback"
    /\ device_zone.readable /\ Len(device_zone.value) = 5
    /\ attr_options = <<"0", "1", "3">>

(***************************************************************************)
(* Claims about the schedule codec (specification SpecSchedule).           *)
(***************************************************************************)
ScheduleCalled == slast.op = "async_set_schedule"
Succeeded == ScheduleCalled /\ IsNone(slast.raised)
OtherType(type) == IF type = "primary" THEN "secondary" ELSE "primary"
MissingEnd(data) == {d \in DaySet : ~IsNone(data[d].start) /\ IsNone(data[d].end)}

\* the triple the device currently reports for a schedule type and a day
StoredTriple(type, d) ==
    <<schedules[type][d].start, schedules[type][d].duration,
      IF schedules[type][d].boundary THEN 1 ELSE 0>>

\* C6: every successful set-schedule call, of either type, sends exactly
\* once; the document has the single top-level key "sc", holds both
\* schedule types, and the type that was not edited is the device's
\* reported schedule of that type, unchanged.
C6_OneSendBothSchedules ==
    Succeeded =>
        /\ send_count = slast.sends_before + 1
        /\ Len(slast.sent) = 1
        /\ DOMAIN slast.sent[1] = {"sc"}
        /\ DOMAIN slast.sent[1].sc = {"d", "dd"}
        /\ LET other == OtherType(slast.request.type)
           IN  slast.sent[1].sc[IF other = "primary" THEN "d" ELSE "dd"]
                 = [i \in 1 .. 7 |-> StoredTriple(other, Days[i])]

C6_Witness ==
    /\ Succeeded
    /\ slast.request.type = "primary"
    /\ Supplied(slast.request.data) = {"monday"}
    /\ slast.sent[1].sc["dd"][3] = StoredTriple("secondary", "tuesday")
    /\ send_count = 1

\* C7: in the document of a successful call the edited schedule type holds
\* exactly 7 triples, in weekday order, and every weekday the request gave
\* no start time for carries the device's reported triple of that weekday
\* and schedule type.
C7_UntouchedDaysCarried ==
    Succeeded =>
        LET type == slast.request.type
            edited == slast.sent[1].sc[IF type = "primary" THEN "d" ELSE "dd"]
        IN  /\ Len(edited) = 7
            /\ \A i \in 1 .. 7 :
                  IsNone(slast.request.data[Days[i]].start)
                      => edited[i] = StoredTriple(type, Days[i])

\* an edit of Monday only, of the secondary schedule
C7_Witness ==
    /\ Succeeded
    /\ slast.request.type = "secondary"
    /\ Supplied(slast.request.data) = {"monday"}
    /\ slast.sent[1].sc["dd"][2] = <<<<8, 30>>, 165, 0>>
    /\ slast.sent[1].sc["dd"][7] = StoredTriple("secondary", "saturday")

\* C8: a request with a start time and no end time for some weekday fails
\* with "No end time specified for <day>", <day> being such a weekday, and
\* the call performs no send.
C8_MissingEndNoSend ==
    (ScheduleCalled /\ MissingEnd(slast.request.data) # {}) =>
        /\ ~IsNone(slast.raised)
        /\ Val(slast.raised) \in MissingEnd(slast.request.data)
        /\ slast.sent = <<>>
        /\ send_count = slast.sends_before

\* a valid Monday and a Friday without end time
C8_Witness ==
    /\ ScheduleCalled
    /\ ~IsNone(slast.request.data["monday"].end)
    /\ MissingEnd(slast.request.data) = {"friday"}
    /\ slast.raised = Some("friday")
    /\ send_count = 0

(***************************************************************************)
(* Claims about the account setup (specification SpecSetup).               *)
(***************************************************************************)
SetupCalled == ulast.op = "async_setup_entry"

\* C9: when authentication returns a falsy result, or the enumeration of
\* the devices raises, _setup returns False without raising, creates no
\* registry entry, and creates and connects no per-device handle.
C9_FailedSetupCreatesNothing ==
    (SetupCalled /\ (~ulast.auth \/ IsNone(ulast.enum))) =>
        /\ ~ulast.raised
        /\ ulast.result = FALSE
        /\ registry = ulast.registry_before
        /\ ulast.connected = 0

\* a failed authentication for one account while the other account is set
\* up with two devices
C9_Witness ==
    /\ SetupCalled /\ ~ulast.auth /\ ulast.enum = Some(2)
    /\ ulast.result = FALSE
    /\ IsNone(registry[ulast.entry])
    /\ \E e \in ConfigEntries : ~IsNone(registry[e]) /\ Val(registry[e]).count = 2

\* C10: when authentication fails during async_setup_entry, no further
\* setup step is performed for the entry: its entity platforms are not set
\* up, and the result is False.
C10_AuthFailureAbortsSetup ==
    (SetupCalled /\ ~ulast.auth) =>
        /\ ulast.result = FALSE
        /\ ulast.entry \notin platforms

(***************************************************************************)
(* Claims about the signals (specification SpecDispatch).                  *)
(***************************************************************************)
Delivered == dlast.op = "deliver"

\* C11: once an entity is attached its update callback is eventually
\* invoked, also when the cloud never pushes: the signal of the attach-time
\* refresh reaches the subscription of the same attach.
C11_AttachRefreshInvokesCallback ==
    \A e \in Entities : (e \in Attached) ~> (e \in invoked)

\* the only entity attached was invoked by the delivery of a refresh signal
C11_Witness ==
    /\ Attached = {"mower1"}
    /\ Delivered /\ dlast.sig.kind = "refresh"
    /\ "mower1" \in dlast.targets
    /\ "mower1" \in invoked

\* C13: a push or refresh for one device invokes the update callbacks only
\* of the entities attached to that device, whatever the device names.
C13_SignalReachesOwnDeviceOnly ==
    Delivered => \A e \in dlast.targets : EntityDevice(e) = dlast.sig.origin

(***************************************************************************)
(* Claims about unloading (specification SpecSetup).                       *)
(***************************************************************************)
UnloadCalled == ulast.op = "async_unload_entry"

\* C12: unloading an entry whose platforms unloaded successfully completes
\* without raising for every number of devices: it removes the entry from
\* the registry and returns True.
C12_UnloadCompletes ==
    (UnloadCalled /\ ulast.unload_ok) =>
        /\ ~ulast.raised
        /\ ulast.result
        /\ IsNone(registry[ulast.entry])

(***************************************************************************)
(* Claims about the update cycle, continued.                               *)
(***************************************************************************)
\* C14 (specification SpecTwin): the operating state after a cycle is a
\* function of the online flag, the error code and the status code the cycle
\* read: two entities that ran a cycle on the same reading are in the same
\* state, whatever their states before.
C14_StateFunctionOfReading ==
    (Cycled /\ twin.shared) => attr_state = twin.state

\* C15 (specification Spec): the attribute shadow is sticky: a property
\* that is absent in a cycle leaves the attribute as it was, a property that
\* is present overwrites it, and no attribute is ever set back to null.
C15_ShadowSticky ==
    [][\A master \in Bags :
          async_update(master) =>
             \A p \in Props :
                /\ IsNone(master.props[p]) => attributes'[ATTR_MAP(p)] = attributes[ATTR_MAP(p)]
                /\ ~IsNone(master.props[p]) => attributes'[ATTR_MAP(p)] = master.props[p]
                /\ ~IsNone(attributes[ATTR_MAP(p)]) => ~IsNone(attributes'[ATTR_MAP(p)])]_vars

(***************************************************************************)
(* Claims about the zone selector, continued (specification SpecZone).     *)
(***************************************************************************)
InOptions(option) == \E i \in 1 .. Len(attr_options) : attr_options[i] = option

\* C16: in every reachable state of the zone selector, also before the
\* first valid telemetry, the options begin with "0".
C16_OptionsBeginWithZero ==
    Len(attr_options) >= 1 /\ attr_options[1] = "0"

\* C17: in every reachable state the current option is absent or the index
\* of a configured zone, hence one of the options.
C17_CurrentOptionAmongOptions ==
    IsNone(attr_current_option) \/ InOptions(Val(attr_current_option))

\* str() of the shared current zone, as a table
DigitString(i) == <<"0", "1", "2", "3">>[i + 1]

\* C18: after a signal was handled, the current option is the string form of
\* the adapter's shared current zone when there is one and absent when there
\* is none, and the handler raised no error.
C18_CurrentOptionFollowsShared ==
    ZoneHandled =>
        /\ ~zlast.raised
        /\ IsNone(zlast.shared) => IsNone(attr_current_option)
        /\ ~IsNone(zlast.shared) =>
              attr_current_option = Some(DigitString(Val(zlast.shared)))

\* a handler found no shared current zone after an earlier one had set the
\* current option: the option is absent again
C18_Witness ==
    /\ ZoneHandled
    /\ IsNone(zlast.shared)
    /\ IsNone(attr_current_option)
    /\ Len(attr_options) > 1

Selected == zlast.op = "async_select_option"

\* C19: selecting an option leaves the options and the current option as
\* they were; it dispatches one set-zone command that carries int(option),
\* and when the option is no integer it fails before dispatching anything.
C19_SelectOnlyDispatches ==
    [][zlast'.op = "async_select_option" =>
          /\ UNCHANGED <<attr_options, attr_current_option>>
          /\ \A n \in 0 .. 3 :
                zlast'.option \in {DigitString(n), "0" \o DigitString(n)} =>
                    /\ ~zlast'.raised
                    /\ zlast'.dispatched = <<[service |-> "setzone", zone |-> n]>>
          /\ zlast'.option = "x" => zlast'.raised /\ zlast'.dispatched = <<>>]_vars

\* the padded option "02" was selected while the current option was "3":
\* zone 2 was dispatched and the current option is still "3"
C19_Witness ==
    /\ Selected
    /\ zlast.option = "02"
    /\ zlast.dispatched = <<[service |-> "setzone", zone |-> 2]>>
    /\ attr_current_option = Some("3")

(***************************************************************************)
(* Claims about the mower commands (specification Spec).                   *)
(***************************************************************************)
Returned == last.op \in {"async_return_to_base", "async_stop"}

\* C20: return-to-base sends home() to the device exactly once when the
\* state is neither docked nor returning and sends nothing when it is; stop
\* has exactly the same effect.
C20_HomeUnlessDockedOrReturning ==
    Returned =>
        /\ last.state = attr_state
        /\ last.state \in {"docked", "returning"} => last.calls = <<>>
        /\ last.state \notin {"docked", "returning"} => last.calls = <<"home">>

\* stop was called on a returning mower and sent nothing
C20_Witness ==
    /\ last.op = "async_stop"
    /\ last.state = "returning"
    /\ last.calls = <<>>

Toggled == last.op = "async_start_pause"

\* C21: the start-pause toggle issues exactly one call on the device per
\* invocation: pause() when the operating state is mowing and start() in
\* every other state; never both and never neither.
C21_ToggleOneCall ==
    Toggled =>
        /\ last.state = attr_state
        /\ Len(last.calls) = 1
        /\ last.state = "mowing" => last.calls = <<"pause">>
        /\ last.state # "mowing" => last.calls = <<"start">>

\* the toggle was called on a returning mower and started it
C21_Witness ==
    /\ Toggled
    /\ last.state = "returning"
    /\ last.calls = <<"start">>

====
